---- MODULE Spec2Model ----
(***************************************************************************)
(* Import job queue and pipeline worker.                                   *)
(*                                                                         *)
(*   apps/worker/importWorker.ts      (src/unnamed/part_005)  loop, getUrl *)
(*   apps/api/importacoes/route.ts    (src/unnamed/part_000)  POST         *)
(*                                                                         *)
(* Several worker processes run loop() against one PostgreSQL database.    *)
(* import_status holds the COMMITTED rows; what a claim transaction has    *)
(* written but not committed is invisible to the other sessions and lives  *)
(* in the worker's jobs until COMMIT.  Row locks taken by                  *)
(* SELECT ... FOR UPDATE are held by the session's transaction until that  *)
(* transaction ends.                                                       *)
(***************************************************************************)
EXTENDS Integers, Sequences, FiniteSets, TLC

\* ------------------------------------------------------------------ bounds
NumWorkers == 2
MaxJobs == 3

\* ------------------------------------------------------- program constants
\* const BATCH = Number(process.env.WORKER_BATCH ?? 2)
BATCH == 2

Workers == 1..NumWorkers

\* distributor names in their collation order, and the years
Distribuidoras == <<"CEMIG", "ENEL">>
Anos == {2023, 2024}
Nomes == {Distribuidoras[i] : i \in 1..Len(Distribuidoras)}

NULL == "NULL"
NOW == "now()"

\* the messages the worker stores in erro
MsgNoUrl == "URL nao encontrada na view"
MsgHttp == "HTTP 500"
MsgNoBody == "Resposta sem corpo"
MsgFetch == "request to url failed"
\* the message of a rejected query
MsgStore == "Connection terminated unexpectedly"

\* the (distribuidora, ano) pairs rows of import_status are drawn from
Keys == { <<"ENEL", 2023>>, <<"CEMIG", 2024>> }

\* the catalogs (rows of dataset_url_normalized, by distribuidora and ano)
Catalogs == { { <<"ENEL", 2023>> }, { <<"CEMIG", 2024>> } }

VARIABLES
  import_status,   \* the table import_status: committed rows, by import_id
  dataset_url,     \* the view dataset_url_normalized: set of <<distribuidora, ano>>
  rowlock,         \* rowlock[w]: rows locked by the open transaction of w's client
  orphan,          \* the lock sets of the transactions released to a pool without ending
  pc,              \* pc[w]: the await the worker's loop() is at
  jobs,            \* jobs[w]: the rows the claim SELECT returned, in order
  idx,             \* idx[w]: position of the for-of loop in jobs[w]
  claimed,         \* claimed[id]: committed claim transactions that returned id
  written,         \* written[id]: the terminal statuses written to row id (the last two)
  files,           \* the job last finalized done and the readdir of its unzipped directory
  request,         \* the last request to POST: <<distribuidoras, anos>>, <<>> before it
  response         \* the response POST gave to it (status 0 before it)

vars == <<import_status, dataset_url, rowlock, orphan, pc, jobs, idx,
          claimed, written, files, request, response>>

Ids == DOMAIN import_status

\* one row as POST inserts it (values.push, lines 38-51)
NewRow(nome, ano) ==
  [ distribuidora_nome |-> nome, ano |-> ano, camada |-> NULL,
    status |-> "queued", linhas_processadas |-> 0, data_inicio |-> NULL,
    data_fim |-> NULL, observacoes |-> NULL, erro |-> NULL ]

\* UPDATE import_status SET <changes> WHERE import_id = id
UpdateRow(id, changes) ==
  [import_status EXCEPT ![id] =
     [f \in DOMAIN import_status[id] |->
        IF f \in DOMAIN changes THEN changes[f] ELSE import_status[id][f]]]

\* UPDATE import_status SET status='running', data_inicio = now(), erro = NULL
RunningFields == [status |-> "running", data_inicio |-> NOW, erro |-> NULL]

\* mutant: the error UPDATE also writing observacoes
ErrorFieldsWithNotes(msg) ==
  [status |-> "error", erro |-> msg, data_fim |-> NOW,
   observacoes |-> "Arquivos em: unzipDest"]

\* mutant: the error UPDATE without data_fim = now()
ErrorFieldsNoDataFim(msg) == [status |-> "error", erro |-> msg]

\* UPDATE import_status SET status='error', erro=$2, data_fim=now()
ErrorFields(msg) == [status |-> "error", erro |-> msg, data_fim |-> NOW]

\* written[id] after one more terminal UPDATE of row id: its status appended,
\* the last two kept
Last2(s, x) == IF Len(s) < 2 THEN Append(s, x) ELSE <<s[2], x>>

\* ---------------------------------------------------------- claim SELECT
Pos(nome) == CHOOSE i \in 1..Len(Distribuidoras) : Distribuidoras[i] = nome

\* mutant: ORDER BY distribuidora_nome, ano
OrderLeNameFirst(a, b) ==
  \/ Pos(import_status[a].distribuidora_nome) < Pos(import_status[b].distribuidora_nome)
  \/ /\ import_status[a].distribuidora_nome = import_status[b].distribuidora_nome
     /\ import_status[a].ano <= import_status[b].ano

\* ORDER BY ano, distribuidora_nome
OrderLe(a, b) ==
  \/ import_status[a].ano < import_status[b].ano
  \/ /\ import_status[a].ano = import_status[b].ano
     /\ Pos(import_status[a].distribuidora_nome)
          <= Pos(import_status[b].distribuidora_nome)

LockedByOthers(w) ==
  UNION {rowlock[v] : v \in Workers \ {w}} \cup UNION orphan

\* mutant: the SELECT without FOR UPDATE SKIP LOCKED
QualifiesNoSkip(w, id) == import_status[id].status = "queued"

\* mutant: the SELECT without WHERE status = 'queued'
QualifiesAnyStatus(w, id) == id \notin LockedByOthers(w)

\* WHERE status = 'queued' ... FOR UPDATE SKIP LOCKED
Qualifies(w, id) ==
  /\ import_status[id].status = "queued"
  /\ id \notin LockedByOthers(w)

Min(a, b) == IF a < b THEN a ELSE b

Range(s) == {s[i] : i \in 1..Len(s)}

\* mutant: LIMIT applied to the queued rows before the locked ones are skipped
SelectJobsLimitFirst(w) ==
  LET queued == {id \in Ids : import_status[id].status = "queued"}
      n == Min(BATCH, Cardinality(queued))
      first == { s \in [1..n -> queued] :
                   /\ \A i, k \in 1..n : i < k => s[i] # s[k] /\ OrderLe(s[i], s[k])
                   /\ \A id \in queued \ Range(s) : \A i \in 1..n : OrderLe(s[i], id) }
  IN { SelectSeq(s, LAMBDA id : id \notin LockedByOthers(w)) : s \in first }

\* the results the SELECT may return: the first BATCH qualifying rows in the
\* order of OrderLe (rows with equal keys in either order)
SelectJobs(w) ==
  LET avail == {id \in Ids : Qualifies(w, id)}
      n == Min(BATCH, Cardinality(avail))
  IN { s \in [1..n -> avail] :
         /\ \A i, k \in 1..n : i < k => s[i] # s[k] /\ OrderLe(s[i], s[k])
         /\ \A id \in avail \ Range(s) : \A i \in 1..n : OrderLe(s[i], id) }

\* --------------------------------------------------------------- getUrl
\* SELECT url FROM dataset_url_normalized WHERE distribuidora = $1 AND ano = $2
getUrl(distribuidora_nome, ano) ==
  IF <<distribuidora_nome, ano>> \in dataset_url THEN "url" ELSE NULL

\* ------------------------------------------------------------------ Init
Tables == UNION { [1..m -> {NewRow(k[1], k[2]) : k \in Keys}] : m \in 0..MaxJobs }

Init ==
  /\ import_status \in Tables
  /\ dataset_url \in Catalogs
  /\ rowlock = [w \in Workers |-> {}]
  /\ orphan = {}
  /\ pc = [w \in Workers |-> "connect"]
  /\ jobs = [w \in Workers |-> <<>>]
  /\ idx = [w \in Workers |-> 0]
  /\ claimed = [id \in Ids |-> 0]
  /\ written = [id \in Ids |-> <<>>]
  /\ files = [job |-> 0, names |-> <<>>]
  /\ request = <<>>
  /\ response = [status |-> 0]

\* ------------------------------------------------------- loop(): the claim
\* mutant: the outer catch marks the jobs of the batch as failed
CatchMarksError(w) ==
  /\ import_status' =
       [id \in Ids |->
          IF id \in Range(jobs[w])
            THEN [f \in DOMAIN import_status[id] |->
                    IF f \in DOMAIN ErrorFields(MsgStore) THEN ErrorFields(MsgStore)[f]
                    ELSE import_status[id][f]]
            ELSE import_status[id]]
  /\ orphan' = IF rowlock[w] = {} THEN orphan ELSE orphan \cup {rowlock[w]}
  /\ rowlock' = [rowlock EXCEPT ![w] = {}]
  /\ pc' = [pc EXCEPT ![w] = "connect"]
  /\ jobs' = [jobs EXCEPT ![w] = <<>>]
  /\ idx' = [idx EXCEPT ![w] = 0]

\* catch (e) { await pool.query('ROLLBACK').catch(()=>{}) } finally { client.release() }
\* ROLLBACK runs on another session of the pool; the client goes back to the
\* pool with its transaction, and the row locks of that transaction, as they are
Catch(w) ==
  /\ import_status' = import_status
  /\ orphan' = IF rowlock[w] = {} THEN orphan ELSE orphan \cup {rowlock[w]}
  /\ rowlock' = [rowlock EXCEPT ![w] = {}]
  /\ pc' = [pc EXCEPT ![w] = "connect"]
  /\ jobs' = [jobs EXCEPT ![w] = <<>>]
  /\ idx' = [idx EXCEPT ![w] = 0]

\* pool.connect() rejects (outside the try): loop() rejects,
\* loop().catch(console.error)
ConnectFail(w) ==
  /\ pc[w] = "connect"
  /\ pc' = [pc EXCEPT ![w] = "ended"]
  /\ UNCHANGED <<import_status, dataset_url, rowlock, orphan, jobs, idx,
                 claimed, written, files, request, response>>

\* const client = await pool.connect(); BEGIN;
\* SELECT ... WHERE status = 'queued' ORDER BY ... FOR UPDATE SKIP LOCKED LIMIT $1;
\* if (!jobs.length) { COMMIT; sleep ... }
Select(w) ==
  /\ pc[w] = "connect"
  /\ \E s \in SelectJobs(w) :
       /\ jobs' = [jobs EXCEPT ![w] = s]
       /\ rowlock' = [rowlock EXCEPT ![w] = Range(s)]
       /\ pc' = [pc EXCEPT ![w] = IF Len(s) = 0 THEN "sleep" ELSE "mark"]
  /\ UNCHANGED <<import_status, dataset_url, orphan, idx, claimed, written, files, request, response>>

\* await new Promise(r => setTimeout(r, 3000)); continue;
Sleep(w) ==
  /\ pc[w] = "sleep"
  /\ pc' = [pc EXCEPT ![w] = "connect"]
  /\ UNCHANGED <<import_status, dataset_url, rowlock, orphan, jobs, idx,
                 claimed, written, files, request, response>>

\* the rows as the committed transaction leaves them:
\* for (const j of jobs) UPDATE ... SET status='running', data_inicio = now(), erro = NULL
MarkedRunning(w) ==
  [id \in Ids |->
     IF id \in Range(jobs[w])
       THEN [f \in DOMAIN import_status[id] |->
               IF f \in DOMAIN RunningFields THEN RunningFields[f]
               ELSE import_status[id][f]]
       ELSE import_status[id]]

\* mutant: the marking loop without the COMMIT before the jobs are processed
CommitMissing(w) ==
  /\ pc[w] = "mark"
  /\ pc' = [pc EXCEPT ![w] = "getUrl"]
  /\ idx' = [idx EXCEPT ![w] = 1]
  /\ UNCHANGED <<import_status, dataset_url, rowlock, orphan, jobs, claimed,
                 written, files, request, response>>

\* the marking loop and await client.query('COMMIT') // libera o lock
Commit(w) ==
  /\ pc[w] = "mark"
  /\ import_status' = MarkedRunning(w)
  /\ rowlock' = [rowlock EXCEPT ![w] = {}]
  /\ claimed' = [id \in Ids |->
                   IF id \in Range(jobs[w]) THEN Min(claimed[id] + 1, 2)
                   ELSE claimed[id]]
  /\ pc' = [pc EXCEPT ![w] = "getUrl"]
  /\ idx' = [idx EXCEPT ![w] = 1]
  /\ UNCHANGED <<dataset_url, orphan, jobs, written, files, request, response>>

\* BEGIN or the SELECT rejects (no row locked yet), or an UPDATE of the marking
\* loop or the COMMIT rejects (the selected rows locked): the outer catch
ClaimFail(w) ==
  /\ pc[w] \in {"connect", "mark"}
  /\ Catch(w)
  /\ UNCHANGED <<dataset_url, claimed, written, files, request, response>>

\* ---------------------------------------------- loop(): one job's pipeline
Job(w) == jobs[w][idx[w]]

\* the end of one job's iteration: the next job, or finally { client.release() }
\* and the next iteration of while (true)
NextJob(w) ==
  IF idx[w] < Len(jobs[w])
    THEN /\ idx' = [idx EXCEPT ![w] = @ + 1]
         /\ pc' = [pc EXCEPT ![w] = "getUrl"]
         /\ jobs' = jobs
    ELSE /\ idx' = [idx EXCEPT ![w] = 0]
         /\ pc' = [pc EXCEPT ![w] = "connect"]
         /\ jobs' = [jobs EXCEPT ![w] = <<>>]

UrlOf(id) == getUrl(import_status[id].distribuidora_nome, import_status[id].ano)

\* const url = await getUrl(...); if (!url) { UPDATE ... SET status='error',
\* erro='URL não encontrada na view', data_fim=now(); continue; }
NoUrl(w) ==
  /\ pc[w] = "getUrl"
  /\ UrlOf(Job(w)) = NULL
  /\ import_status' = UpdateRow(Job(w), ErrorFields(MsgNoUrl))
  /\ written' = [written EXCEPT ![Job(w)] = Last2(@, "error")]
  /\ NextJob(w)
  /\ UNCHANGED <<dataset_url, rowlock, orphan, claimed, files, request, response>>

\* url found; await fs.promises.mkdir(destDir, { recursive: true })
Mkdir(w) ==
  /\ pc[w] = "getUrl"
  /\ UrlOf(Job(w)) # NULL
  /\ pc' = [pc EXCEPT ![w] = "fetch"]
  /\ UNCHANGED <<import_status, dataset_url, rowlock, orphan, jobs, idx,
                 claimed, written, files, request, response>>

\* const res = await fetch(url): a response that is ok and has a body
FetchOk(w) ==
  /\ pc[w] = "fetch"
  /\ pc' = [pc EXCEPT ![w] = "pipeline"]
  /\ UNCHANGED <<import_status, dataset_url, rowlock, orphan, jobs, idx,
                 claimed, written, files, request, response>>

\* fetch rejects, if (!res.ok) throw new Error(`HTTP ${res.status}`), or
\* if (!res.body) throw new Error('Resposta sem corpo'); then
\* catch (e:any) { UPDATE ... SET status='error', erro=e.message, data_fim=now() }
FetchThrow(w) ==
  /\ pc[w] = "fetch"
  /\ \E m \in {MsgFetch, MsgHttp, MsgNoBody} :
       import_status' = UpdateRow(Job(w), ErrorFields(m))
  /\ written' = [written EXCEPT ![Job(w)] = Last2(@, "error")]
  /\ NextJob(w)
  /\ UNCHANGED <<dataset_url, rowlock, orphan, claimed, files, request, response>>

\* await new Promise<void>(async (resolve, reject) => { ...; await pipeline(nodeReadable, ws); })
\* the executor calls neither resolve nor reject: when the stream has been
\* written the awaited promise stays pending and loop() never resumes: the
\* statements after the await (unzip, readdir, UPDATE ... status='done') are
\* never executed and have no action here
PipelineDone(w) ==
  /\ pc[w] = "pipeline"
  /\ pc' = [pc EXCEPT ![w] = "pending"]
  /\ UNCHANGED <<import_status, dataset_url, rowlock, orphan, jobs, idx,
                 claimed, written, files, request, response>>

\* pipeline() rejects inside the async executor: an unhandled rejection. The
\* awaited promise stays pending, or the runtime ends the process
PipelineReject(w) ==
  /\ pc[w] = "pipeline"
  /\ \E p \in {"pending", "ended"} : pc' = [pc EXCEPT ![w] = p]
  /\ UNCHANGED <<import_status, dataset_url, rowlock, orphan, jobs, idx,
                 claimed, written, files, request, response>>

\* getUrl's query or mkdir rejects, or an UPDATE ... status='error' rejects:
\* the outer catch
StepFail(w) ==
  /\ pc[w] \in {"getUrl", "fetch"}
  /\ Catch(w)
  /\ UNCHANGED <<dataset_url, claimed, written, files, request, response>>

\* the session of a client released with its transaction open ends (the pool's
\* idle timeout, the end of the process): the server rolls the transaction
\* back and frees its locks
SessionEnd(t) ==
  /\ t \in orphan
  /\ orphan' = orphan \ {t}
  /\ UNCHANGED <<import_status, dataset_url, rowlock, pc, jobs, idx,
                 claimed, written, files, request, response>>

\* ------------------------------------------------------------- POST
\* values.push(importId, null, r.ano, null, 'queued', 0, null, null, null,
\*             null, r.distribuidora, r.id): values pushed for one row
ValuesPerRow == 12

\* const base = i * 12
Stride == 12

\* ($${base+1}, ..., $${base+11}): placeholders written for one row
PlaceholdersPerRow == 11

\* the $n the INSERT text names, for n rows
Placeholders(n) ==
  UNION { {i * Stride + k : k \in 1..PlaceholdersPerRow} : i \in 0..(n - 1) }

\* the server binds the values when the statement's parameters are exactly
\* $1..$(number of values supplied); otherwise the query rejects
BindAccepted(n) == Placeholders(n) = 1..(n * ValuesPerRow)

\* WHERE distribuidora = ANY($1) AND ano = ANY($2) ORDER BY distribuidora, ano
CatalogRows(distribuidoras, anos) ==
  {r \in dataset_url : r[1] \in distribuidoras /\ r[2] \in anos}

RowLe(r, q) == Pos(r[1]) < Pos(q[1]) \/ (r[1] = q[1] /\ r[2] <= q[2])

RowsInOrder(rows) ==
  CHOOSE s \in [1..Cardinality(rows) -> rows] :
    \A i, k \in 1..Cardinality(rows) : i < k => s[i] # s[k] /\ RowLe(s[i], s[k])

\* INSERT INTO import_status (...) VALUES ...: one row per catalog row
Inserted(rows) ==
  LET s == RowsInOrder(rows)
      n == Cardinality(Ids)
  IN [id \in 1..(n + Len(s)) |->
        IF id <= n THEN import_status[id]
        ELSE NewRow(s[id - n][1], s[id - n][2])]

Respond(r) ==
  /\ response' = r
  /\ UNCHANGED <<import_status, claimed, written>>

\* mutant: POST without if (!rows.length) return: the INSERT with an empty
\* VALUES list is rejected
POSTNoEarlyReturn(distribuidoras, anos) ==
  /\ request' = <<distribuidoras, anos>>
  /\ LET rows == CatalogRows(distribuidoras, anos) IN
       IF distribuidoras = {} \/ anos = {}
         THEN Respond([status |-> 400, error |-> "Selecao invalida"])
       ELSE Respond([status |-> 500])
  /\ UNCHANGED <<dataset_url, rowlock, orphan, pc, jobs, idx, files>>

\* export async function POST(req): 400 on an invalid selection, enfileirados: 0
\* when no catalog row matches, else the INSERT, which throws when the server
\* rejects it

POST(distribuidoras, anos) ==
  /\ request' = <<distribuidoras, anos>>
  /\ LET rows == CatalogRows(distribuidoras, anos) IN
       IF distribuidoras = {} \/ anos = {}
         THEN Respond([status |-> 400, error |-> "Selecao invalida"])
       ELSE IF rows = {}
         THEN Respond([status |-> 200, enfileirados |-> 0])
       ELSE IF ~BindAccepted(Cardinality(rows))
         THEN Respond([status |-> 500])
       ELSE /\ Cardinality(Ids) + Cardinality(rows) <= MaxJobs
            /\ import_status' = Inserted(rows)
            /\ claimed' = [id \in DOMAIN Inserted(rows) |->
                             IF id \in Ids THEN claimed[id] ELSE 0]
            /\ written' = [id \in DOMAIN Inserted(rows) |->
                             IF id \in Ids THEN written[id] ELSE <<>>]
            /\ response' = [status |-> 200, enfileirados |-> Cardinality(rows)]
  /\ UNCHANGED <<dataset_url, rowlock, orphan, pc, jobs, idx, files>>

loop(w) ==
  \/ ConnectFail(w) \/ Select(w) \/ Sleep(w) \/ Commit(w) \/ ClaimFail(w)
  \/ NoUrl(w) \/ Mkdir(w) \/ FetchOk(w) \/ FetchThrow(w)
  \/ PipelineDone(w) \/ PipelineReject(w) \/ StepFail(w)

Next ==
  \/ \E w \in Workers : loop(w)
  \/ \E t \in orphan : SessionEnd(t)

\* the worker processes against one database
Spec == Init /\ [][Next]_vars

\* the steps of loop() in which every query, mkdir and the download stream
\* succeed (a download may still answer with a failure response)
work(w) ==
  \/ Select(w) \/ Sleep(w) \/ Commit(w) \/ NoUrl(w) \/ Mkdir(w)
  \/ FetchOk(w) \/ FetchThrow(w) \/ PipelineDone(w)

NextWork == \E w \in Workers : work(w)

\* every worker process keeps being scheduled and its collaborators answer
FairSpec == Init /\ [][NextWork]_vars /\ \A w \in Workers : WF_vars(work(w))

\* every worker performs one claim transaction, and every one commits
NextOnce == \E w \in Workers : Select(w) \/ Commit(w)

SpecOnce == Init /\ [][NextOnce]_vars

\* the route handler against the database
NextApi ==
  \E distribuidoras \in SUBSET Nomes, anos \in SUBSET Anos :
    POST(distribuidoras, anos)

SpecApi == Init /\ [][NextApi]_vars

\* ------------------------------------- loop(): the statements on one row
\* The UPDATEs of loop() and the inference of camada, as the operations on a
\* row that they are: a table of one row, the statements applied to it in any
\* order.

\* strings the code looks into are sequences of characters; the upper case
\* of the letters
UpperOf ==
  [ a |-> "A", b |-> "B", c |-> "C", d |-> "D", e |-> "E",
    f |-> "F", g |-> "G", h |-> "H", i |-> "I", j |-> "J",
    k |-> "K", l |-> "L", m |-> "M", n |-> "N", o |-> "O",
    p |-> "P", q |-> "Q", r |-> "R", s |-> "S", t |-> "T",
    u |-> "U", v |-> "V", w |-> "W", x |-> "X", y |-> "Y",
    z |-> "Z" ]

\* the upper case of one character
Up(c) == IF c \in DOMAIN UpperOf THEN UpperOf[c] ELSE c

\* String.prototype.toUpperCase
toUpperCase(str) == [i \in 1..Len(str) |-> Up(str[i])]

\* the alternatives of /(UCMT|UCBT|UCAT|PONNOT)/i, in their order
Alternatives == << <<"U", "C", "M", "T">>, <<"U", "C", "B", "T">>,
                   <<"U", "C", "A", "T">>, <<"P", "O", "N", "N", "O", "T">> >>

\* mutant: the regular expressions without the flag i
MatchesAtSameCase(str, p, k) ==
  /\ p + Len(Alternatives[k]) - 1 <= Len(str)
  /\ \A i \in 1..Len(Alternatives[k]) : str[p + i - 1] = Alternatives[k][i]

\* alternative k matches str at position p, whatever the case of the letters
MatchesAt(str, p, k) ==
  /\ p + Len(Alternatives[k]) - 1 <= Len(str)
  /\ \A i \in 1..Len(Alternatives[k]) : Up(str[p + i - 1]) = Alternatives[k][i]

\* /UCMT|UCBT|UCAT|PONNOT/i.test(f)
test(f) ==
  \E p \in 1..Len(f), k \in 1..Len(Alternatives) : MatchesAt(f, p, k)

\* hit.match(/(UCMT|UCBT|UCAT|PONNOT)/i)[1]: the leftmost match, and at it the
\* first alternative that matches
match(hit) ==
  LET here(p) == {k \in 1..Len(Alternatives) : MatchesAt(hit, p, k)}
      p == CHOOSE q \in 1..Len(hit) :
             here(q) # {} /\ \A r \in 1..(q - 1) : here(r) = {}
      k == CHOOSE j \in here(p) : \A i \in here(p) : j <= i
  IN SubSeq(hit, p, p + Len(Alternatives[k]) - 1)

\* the value of a text column for a sequence of characters
Text(str) ==
  CASE str = Alternatives[1] -> "UCMT"
    [] str = Alternatives[2] -> "UCBT"
    [] str = Alternatives[3] -> "UCAT"
    [] str = Alternatives[4] -> "PONNOT"
    [] OTHER -> "other"

\* let camada = null; const hit = files.find(...);
\* if (hit) { const m = hit.match(...); camada = m ? m[1].toUpperCase() : null }
inferCamada(names) ==
  LET hits == {i \in 1..Len(names) : test(names[i])} IN
    IF hits = {} THEN NULL
    ELSE Text(toUpperCase(match(names[CHOOSE i \in hits : \A j \in hits : i <= j])))

\* `Arquivos em: ${unzipDest}`
NOTES == "Arquivos em: unzipDest"

\* mutant: the done UPDATE with data_fim = CASE WHEN data_fim IS NULL THEN now() END
DoneFieldsFirstOnly(id, camada) ==
  [ status |-> "done",
    camada |-> IF camada # NULL THEN camada ELSE import_status[id].camada,
    data_fim |-> IF import_status[id].data_fim = NULL THEN NOW ELSE NULL,
    observacoes |-> NOTES ]

\* UPDATE import_status SET status='done', camada = COALESCE($2, camada),
\* data_fim = now(), observacoes = $3 WHERE import_id = $1
DoneFields(id, camada) ==
  [ status |-> "done",
    camada |-> IF camada # NULL THEN camada ELSE import_status[id].camada,
    data_fim |-> NOW, observacoes |-> NOTES ]

\* the names unzipped directories are listed with
Entries ==
  { << "e", "x", "p", "o", "r", "t", "_", "U", "C", "B", "T", "_", "2",
       "0", "2", "4", ".", "d", "a", "t" >>,
    << "u", "c", "m", "t", ".", "c", "s", "v" >>,
    << "r", "e", "a", "d", "m", "e", ".", "t", "x", "t" >> }

\* what readdir(unzipDest) may return: entries of a directory, each once, in
\* any order
Listings ==
  UNION { { l \in [1..n -> Entries] : \A i, k \in 1..n : i # k => l[i] # l[k] } :
          n \in 0..Cardinality(Entries) }

MarkRunning(id) ==
  /\ import_status' = UpdateRow(id, RunningFields)
  /\ UNCHANGED <<dataset_url, rowlock, orphan, pc, jobs, idx, claimed, written,
                 files, request, response>>

WriteError(id, msg) ==
  /\ import_status' = UpdateRow(id, ErrorFields(msg))
  /\ written' = [written EXCEPT ![id] = Last2(@, "error")]
  /\ UNCHANGED <<dataset_url, rowlock, orphan, pc, jobs, idx, claimed, files,
                 request, response>>

WriteDone(id, names) ==
  /\ files' = [job |-> id, names |-> names]
  /\ import_status' = UpdateRow(id, DoneFields(id, inferCamada(names)))
  /\ written' = [written EXCEPT ![id] = Last2(@, "done")]
  /\ UNCHANGED <<dataset_url, rowlock, orphan, pc, jobs, idx, claimed,
                 request, response>>

InitStore == Init /\ Ids = {1}

NextStore ==
  \E id \in Ids :
    \/ MarkRunning(id)
    \/ \E msg \in {MsgNoUrl, MsgHttp} : WriteError(id, msg)
    \/ \E names \in Listings : WriteDone(id, names)

SpecStore == InitStore /\ [][NextStore]_vars

\* ------------------------------------------------ loop(): the workspace
\* paths are sequences of segments

\* path.resolve(process.cwd(), 'data', 'downloads')
BASE_DIR == <<"cwd", "data", "downloads">>

Digits == <<"0", "1", "2", "3", "4", "5", "6", "7", "8", "9">>

\* String(j.ano): the decimal digits of a natural number
RECURSIVE String(_)
String(n) ==
  IF n < 10 THEN <<Digits[n + 1]>>
  ELSE Append(String(n \div 10), Digits[(n % 10) + 1])

\* const destDir = path.join(BASE_DIR, j.distribuidora_nome, String(j.ano))
destDir(id) ==
  BASE_DIR \o <<import_status[id].distribuidora_nome, String(import_status[id].ano)>>

\* const zipPath = path.join(destDir, `dataset_${j.ano}.zip`)
zipPath(id) == destDir(id) \o << <<"dataset_", String(import_status[id].ano), ".zip">> >>

\* const unzipDest = path.join(destDir, 'unzipped')
unzipDest(id) == destDir(id) \o <<"unzipped">>

\* ================================================================ claims
Processing == {"getUrl", "fetch", "pipeline", "pending"}

\* the workers whose committed claim returned id and has not been left
Holders(id) == {w \in Workers : pc[w] \in Processing \cup {"ended"} /\ id \in Range(jobs[w])}

Status(id) == import_status[id].status

\* C1: no job is returned by two committed claim transactions, the batches of
\* two workers never overlap, and a running job is held by at most one worker
C1_ExclusiveClaim ==
  /\ \A id \in Ids : claimed[id] <= 1 /\ Cardinality(Holders(id)) <= 1
  /\ \A w, v \in Workers : w # v => Range(jobs[w]) \cap Range(jobs[v]) = {}

\* two workers hold committed, non-empty batches at the same time
C1_Witness ==
  \E w, v \in Workers :
    /\ w # v
    /\ pc[w] \in Processing /\ pc[v] \in Processing
    /\ \A id \in Range(jobs[w]) \cup Range(jobs[v]) : Status(id) = "running"

OnceDone == \A w \in Workers : pc[w] \in {"sleep", "getUrl"}

\* C2: when each of the N workers has committed one claim of up to BATCH rows
\* against M queued rows, M < N * BATCH, every row is in exactly one batch
C2_EveryJobClaimedOnce ==
  (OnceDone /\ Cardinality(Ids) < NumWorkers * BATCH)
    => \A id \in Ids :
         /\ Cardinality({w \in Workers : id \in Range(jobs[w])}) = 1
         /\ claimed[id] = 1

\* every worker has committed its claim and more than one batch is not empty
C2_Witness ==
  /\ OnceDone
  /\ Cardinality(Ids) < NumWorkers * BATCH
  /\ Cardinality({w \in Workers : jobs[w] # <<>>}) >= 2

Transitions ==
  { <<"queued", "running">>, <<"running", "done">>, <<"running", "error">> }

\* C3: a row's status changes only queued -> running, running -> done and
\* running -> error; a done or error row keeps its status
C3_MonotonicStatus ==
  [][ \A id \in Ids :
        id \in DOMAIN import_status' /\
        (import_status'[id].status # Status(id)
           => <<Status(id), import_status'[id].status>> \in Transitions) ]_vars

\* a claim transaction is open while another row is already in a terminal state
C3_Witness ==
  /\ \E id \in Ids : Status(id) = "error"
  /\ \E w \in Workers : pc[w] = "mark"

\* C4: every row marked running eventually is done or error
C4_RunsToCompletion ==
  \A id \in 1..MaxJobs :
    (id \in Ids /\ Status(id) = "running")
      ~> (id \in Ids /\ Status(id) \in {"done", "error"})

\* a claimed batch of one row without catalog URL and one row with it
Mixed(w) ==
  /\ Len(jobs[w]) = 2
  /\ \E i, k \in 1..2 : UrlOf(jobs[w][i]) = NULL /\ UrlOf(jobs[w][k]) # NULL

\* C5: once the download of the row with a URL has succeeded, the batch ends
\* with the row without URL in error with the lookup-miss message and the
\* other row done
C5_Isolation ==
  \A w \in Workers :
    (pc[w] = "pending" /\ Mixed(w))
      ~> \E a, b \in Ids :
           /\ UrlOf(a) = NULL /\ Status(a) = "error"
           /\ import_status[a].erro = MsgNoUrl
           /\ UrlOf(b) # NULL /\ Status(b) = "done"

\* the rows of w's batch its for-of loop has not finished
Unfinished(w) == {jobs[w][i] : i \in idx[w]..Len(jobs[w])}

\* C6: a running row is a row of the batch some worker is still processing:
\* no failure of a step leaves it or a sibling running and unprocessed
C6_FailureIsolated ==
  \A id \in Ids :
    Status(id) = "running"
      => \E w \in Workers : pc[w] \in Processing /\ id \in Unfinished(w)

\* C7: a queued row that no open claim transaction holds can be claimed by
\* every worker: a failed claim attempt leaves no lock behind
C7_FailedClaimReleases ==
  \A id \in Ids :
    (Status(id) = "queued" /\ id \notin UNION {rowlock[w] : w \in Workers})
      => \A w \in Workers : Qualifies(w, id)

C9_LoopNeverEnds == \A w \in Workers : pc[w] # "ended"

\* C10: a request with distributors and years that match catalog rows adds
\* one queued row per matching catalog row and answers with their number
C10_EnqueueInserts ==
  [][ (Len(request') = 2 /\ request'[1] # {} /\ request'[2] # {}
         /\ CatalogRows(request'[1], request'[2]) # {})
      => LET rows == CatalogRows(request'[1], request'[2])
             n == Cardinality(Ids)
         IN /\ response' = [status |-> 200, enfileirados |-> Cardinality(rows)]
            /\ DOMAIN import_status' = 1..(n + Cardinality(rows))
            /\ \A id \in Ids : import_status'[id] = import_status[id]
            /\ \A r \in rows :
                 Cardinality({id \in (n + 1)..(n + Cardinality(rows)) :
                                import_status'[id] = NewRow(r[1], r[2])}) = 1 ]_vars

\* the distributors and the years of the last request
Asked == IF Len(request) = 2 THEN request ELSE <<{}, {}>>

\* the catalog rows the selection of the last request names
Matching == {r \in dataset_url : r[1] \in Asked[1] /\ r[2] \in Asked[2]}

\* C11: a request with at least one distributor and one year that no row of
\* the catalog matches is answered with status 200 and enfileirados 0, and
\* the table import_status is after it what it was before it
C11_NoMatchEnqueuesNothing ==
  [][ (Asked'[1] # {} /\ Asked'[2] # {} /\ Matching' = {})
        => /\ response'.status = 200
           /\ DOMAIN response' = {"status", "enfileirados"}
           /\ response'.enfileirados = 0
           /\ import_status' = import_status ]_vars

\* a selection of both distributors and one year that matches no catalog row
\* has been answered with a count of 0
C11_Witness ==
  /\ Asked[1] = Nomes /\ Asked[2] # {} /\ Matching = {}
  /\ response.status = 200
  /\ import_status # <<>>

\* name holds the code somewhere, in letters of either case
Holds(name, code) ==
  \E p \in 1..(Len(name) - Len(code) + 1) :
    \A i \in 1..Len(code) : Up(name[p + i - 1]) = code[i]

\* the codes of the vocabulary an entry name holds
CodesIn(name) ==
  {Text(Alternatives[k]) : k \in {j \in 1..Len(Alternatives) : Holds(name, Alternatives[j])}}

\* C12: when the done UPDATE finalizes a job, its camada is a code of the
\* vocabulary, in upper case, that the first entry of the listing holding one
\* holds (in letters of either case); when no entry holds a code its camada
\* is the one stored before, never NULL in its place
C12_LayerFromFirstMatch ==
  [][ \A id \in Ids :
        (files'.job = id /\ import_status'[id].status = "done")
          => LET names == files'.names
                 hits == {i \in 1..Len(names) : CodesIn(names[i]) # {}}
             IN IF hits = {}
                  THEN import_status'[id].camada = import_status[id].camada
                  ELSE \E first \in hits :
                         /\ \A i \in hits : first <= i
                         /\ import_status'[id].camada \in CodesIn(names[first])
    ]_vars

\* a job finalized twice, the second time with a listing whose first entry
\* holds no code and whose second entry is export_UCBT_2024.dat
C12_Witness ==
  \E id \in Ids :
    /\ files.job = id /\ written[id] = <<"done", "done">>
    /\ Len(files.names) = 2
    /\ CodesIn(files.names[1]) = {} /\ CodesIn(files.names[2]) = {"UCBT"}
    /\ import_status[id].status = "done"
    /\ import_status[id].camada = "UCBT"

Terminal == {"done", "error"}

\* C13: data_inicio is non-null exactly in the rows that are no longer queued
\* and data_fim exactly in the rows that are done or error; data_inicio is
\* written by one claim at most, in the step from queued to running, data_fim
\* by one terminal UPDATE at most, in the step into done or error, and no
\* other step changes either of them
C13_TimestampsWrittenOnce ==
  /\ [](\A id \in Ids :
          /\ import_status[id].data_inicio # NULL <=> Status(id) # "queued"
          /\ import_status[id].data_fim # NULL <=> Status(id) \in Terminal
          /\ claimed[id] <= 1
          /\ Len(written[id]) <= 1)
  /\ [][ \A id \in Ids :
          /\ (import_status'[id].data_inicio # import_status[id].data_inicio
                 \/ claimed'[id] # claimed[id])
               => /\ Status(id) = "queued"
                  /\ import_status'[id].status = "running"
                  /\ import_status'[id].data_inicio = NOW
          /\ (import_status'[id].data_fim # import_status[id].data_fim
                 \/ written'[id] # written[id])
               => /\ Status(id) = "running"
                  /\ import_status'[id].status \in Terminal
                  /\ import_status'[id].data_fim = NOW ]_vars

\* a queued row, a running row and an error row side by side, the error row
\* with one terminal UPDATE
C13_Witness ==
  \E a, b, c \in Ids :
    /\ Status(a) = "queued" /\ import_status[a].data_inicio = NULL
    /\ Status(b) = "running" /\ import_status[b].data_inicio = NOW
    /\ import_status[b].data_fim = NULL
    /\ Status(c) = "error" /\ import_status[c].data_inicio = NOW
    /\ import_status[c].data_fim = NOW /\ written[c] = <<"error">>

Last(s) == s[Len(s)]

\* C14: a terminal UPDATE applied to a row whose last terminal UPDATE wrote
\* the same status, and which still has that status, leaves the status as
\* it is and data_fim non-null
C14_SecondWriteKeepsOutcome ==
  [][ \A id \in Ids :
        ( /\ written'[id] # written[id]
          /\ written[id] # <<>>
          /\ Last(written'[id]) = Last(written[id])
          /\ Status(id) = Last(written[id]) )
        => /\ import_status'[id].status = Status(id)
           /\ import_status[id].data_fim # NULL
           /\ import_status'[id].data_fim # NULL ]_vars

\* a row after the error UPDATE has been applied to it twice
C14_Witness ==
  \E id \in Ids :
    /\ written[id] = <<"error", "error">>
    /\ Status(id) = "error"
    /\ import_status[id].data_fim = NOW
    /\ import_status[id].observacoes = NULL

\* the rows some open transaction holds locked
Locked == UNION {rowlock[w] : w \in Workers} \cup UNION orphan

\* C15: while a worker looks up, downloads or writes the outcome of a job,
\* its claim transaction is closed (it holds no row lock), the job's row is
\* committed as running and no transaction holds it locked; and a row gets
\* a terminal status only from running
C15_PipelineAfterCommit ==
  /\ [](\A w \in Workers :
          pc[w] \in Processing
            => /\ rowlock[w] = {}
               /\ \A id \in Range(jobs[w]) : claimed[id] >= 1 /\ id \notin Locked
               /\ Status(Job(w)) = "running")
  /\ [][ \A id \in Ids :
          (import_status'[id].status \in Terminal /\ Status(id) \notin Terminal)
            => Status(id) = "running" /\ claimed[id] >= 1 /\ id \notin Locked ]_vars

\* a worker downloads a job of its committed batch while another worker's
\* claim transaction is open
C15_Witness ==
  \E w, v \in Workers :
    /\ pc[w] = "fetch" /\ rowlock[w] = {} /\ Status(Job(w)) = "running"
    /\ pc[v] = "mark" /\ rowlock[v] # {}
    /\ \E id \in Range(jobs[w]) : Status(id) = "error"

\* the rows that are queued and that no transaction but w's own holds locked
Free(w) ==
  {id \in Ids : Status(id) = "queued"
                  /\ \A v \in Workers \ {w} : id \notin rowlock[v]
                  /\ \A t \in orphan : id \notin t}

\* row a is not after row b in ascending (ano, distribuidora_nome)
NotAfter(a, b) ==
  LET ra == import_status[a]
      rb == import_status[b]
  IN \/ ra.ano < rb.ano
     \/ ra.ano = rb.ano /\ Pos(ra.distribuidora_nome) <= Pos(rb.distribuidora_nome)

\* C16: a claim SELECT returns the lesser of BATCH and the number of free
\* rows (queued, locked by no other transaction), each of them free and
\* returned once, in ascending (ano, distribuidora_nome), with no free row
\* left out that comes before a returned one; when no row is free it returns
\* no row, no row is locked or changed, and the worker goes to its sleep,
\* from which it comes back to the claim
C16_ClaimReturnsFirstFree ==
  [][ \A w \in Workers :
        /\ (pc[w] = "connect" /\ pc'[w] \in {"mark", "sleep"})
             => LET s == jobs'[w] IN
                /\ Len(s) = Min(BATCH, Cardinality(Free(w)))
                /\ \A i \in 1..Len(s) : s[i] \in Free(w)
                /\ \A i, k \in 1..Len(s) : i < k => s[i] # s[k] /\ NotAfter(s[i], s[k])
                /\ \A id \in Free(w) \ Range(s) : \A i \in 1..Len(s) : NotAfter(s[i], id)
                /\ rowlock'[w] = Range(s)
                /\ import_status' = import_status
                /\ Free(w) = {} <=> pc'[w] = "sleep"
        /\ (pc[w] = "sleep" /\ pc'[w] # "sleep")
             => pc'[w] = "connect" /\ jobs[w] = <<>> /\ rowlock[w] = {}
                /\ import_status' = import_status ]_vars

\* one worker's claim has returned BATCH rows of different years, the
\* earlier year first, and the other worker's claim no row
C16_Witness ==
  \E w, v \in Workers :
    /\ pc[w] = "mark" /\ Len(jobs[w]) = BATCH
    /\ import_status[jobs[w][1]].ano < import_status[jobs[w][2]].ano
    /\ Pos(import_status[jobs[w][1]].distribuidora_nome)
         > Pos(import_status[jobs[w][2]].distribuidora_nome)
    /\ pc[v] = "sleep" /\ jobs[v] = <<>>
    /\ \A id \in Ids : Status(id) = "queued"

\* the workers that have made the workspace of their job and are writing
\* into it
Downloading == {w \in Workers : pc[w] \in {"fetch", "pipeline"}}

\* C17: two workers that are downloading at the same time write neither to
\* the same archive path nor into the same workspace directory
C17_PrivateWorkspace ==
  \A w, v \in Downloading :
    w # v => /\ destDir(Job(w)) # destDir(Job(v))
             /\ zipPath(Job(w)) # zipPath(Job(v))
             /\ unzipDest(Job(w)) # unzipDest(Job(v))

\* C18: no row has both observacoes and erro non-null; a running row has erro
\* null, a done row has observacoes set and erro null, an error row has erro
\* set; and the error UPDATE leaves observacoes and camada of its row as they
\* were
C18_NotesExcludeError ==
  /\ [](\A id \in Ids :
          LET row == import_status[id] IN
          /\ ~(row.observacoes # NULL /\ row.erro # NULL)
          /\ row.status = "running" => row.erro = NULL
          /\ row.status = "done" => row.observacoes # NULL /\ row.erro = NULL
          /\ row.status = "error" => row.erro # NULL)
  /\ [][ \A id \in Ids :
          (written'[id] # written[id] /\ Last(written'[id]) = "error")
            => /\ import_status'[id].status = "error"
               /\ import_status'[id].erro # NULL
               /\ import_status'[id].observacoes = import_status[id].observacoes
               /\ import_status'[id].camada = import_status[id].camada ]_vars

\* the two jobs of a batch: the first failed in its download, the second
\* being downloaded
C18_Witness ==
  \E w \in Workers :
    /\ Len(jobs[w]) = 2 /\ idx[w] = 2 /\ pc[w] = "pipeline"
    /\ import_status[jobs[w][1]].erro = MsgHttp
    /\ import_status[jobs[w][1]].observacoes = NULL
    /\ import_status[jobs[w][2]].status = "running"
    /\ import_status[jobs[w][2]].erro = NULL

====
